---- MODULE Spec2Model ----
(***************************************************************************)
(* Preview-environment deployment finalization (FinalizeDeploymentHandler) *)
(* of porter: the handler's steps against the backing store and the        *)
(* pull-request system, with concurrent requests and concurrent pushes;    *)
(* and the provisioning handlers of package api: the launch of a           *)
(* provisioning run and the relay of its event stream to observers.        *)
(***************************************************************************)
EXTENDS Integers, Sequences, FiniteSets, TLC

VARIABLES
    envExists,  \* the Environment row of the request's scope is in the store
    db,         \* the Deployment row of (environment, namespace), or NoRow
    latestSHA,  \* the commit of the most recent push
    prState,    \* state of the pull request at the pull-request system
    pc,         \* per request: the handler's position
    req,        \* per request: the decoded FinalizeDeploymentRequest
    depl,       \* per request: the handler's local variable depl
    calls,      \* per request: store and API calls made so far, with outcome
    before,     \* per request: the row as ReadDeployment returned it
    stored,     \* per request: the row as this request's UpdateDeployment saved it
    posted,     \* per request: the comments this request created on the PR
    result,     \* per request: what was written to the response
    infras,     \* the AWSInfra table of the store, in order of creation
    jobs,       \* the provisioning jobs the execution substrate accepted
    launch,     \* per launch request: the provisioning handler's locals
    streams,    \* per stream name: the events appended so far
    obs         \* per observer: the state of its HandleGetProvisioningLogs call

provVars == <<infras, jobs, launch, streams, obs>>

vars == <<envExists, db, latestSHA, prState,
          pc, req, depl, calls, before, stored, posted, result, provVars>>

reqVars == <<pc, req, depl, calls, before, stored, posted, result>>

finalizeVars == <<envExists, db, latestSHA, prState, reqVars>>

(* ---------------------------- bounds ----------------------------------- *)

NumReqs == 2
MaxResources == 2
MaxPushes == 1
NumLaunches == 2
NumObservers == 2
MaxEvents == 2

Reqs == 1..NumReqs

Launches == 1..NumLaunches

Observers == 1..NumObservers

(* ------------------------- program constants --------------------------- *)

StatusInternalServerError == 500
StatusConflict == 409
StatusOK == 200
StatusCreated == 201

DeploymentStatusCreated == "created"

DeploymentStatuses ==
    {"created", "creating", "failed", "timed_out", "closing", "closed"}

IngressDisabled == "*Ingress is disabled for this deployment*"

Subdomains == {"", "foo.example.com"}

ReleaseTypes == {"job", "web"}

ReleaseNames == {"worker", "api"}

SuccessfulResources == [ReleaseName : ReleaseNames, ReleaseType : ReleaseTypes]

ResourceLists ==
    UNION {[1..n -> SuccessfulResources] : n \in 0..MaxResources}

FinalizeDeploymentRequest ==
    [Subdomain : Subdomains, SuccessfulResources : ResourceLists]

\* the requests drawn where several handlers run concurrently
ConcurrentRequests ==
    [Subdomain : Subdomains,
     SuccessfulResources :
        {<< >>, << [ReleaseName |-> "worker", ReleaseType |-> "job"] >>}]

NoRow == [exists |-> FALSE]
NoReq == [none |-> TRUE]
NoComment == <<>>
NoResult == [code |-> 0]

Deployment(status, subdomain, sha) ==
    [exists |-> TRUE, Status |-> status, Subdomain |-> subdomain,
     CommitSHA |-> sha, GHDeploymentID |-> 1]

(* ------------------------- error constructors -------------------------- *)

NewErrInternal(err) ==
    [code |-> StatusInternalServerError, class |-> "Internal", err |-> err]

\* variant: the error is built with NewErrInternal instead
NewErrPassThroughToClient_AsInternal(err, status) ==
    NewErrInternal(err)

NewErrPassThroughToClient(err, status) ==
    [code |-> status,
     class |-> IF status = StatusConflict THEN "Conflict" ELSE "Client",
     err |-> err]

(* ------------------------- backing store ------------------------------- *)

\* ReadEnvironment: the row, or an error when it is absent or the store fails
ReadEnvironment(storeOK) ==
    IF ~envExists THEN "record not found"
    ELSE IF ~storeOK THEN "store failure"
    ELSE "ok"

ReadDeployment(storeOK) ==
    IF ~db.exists THEN "record not found"
    ELSE IF ~storeOK THEN "store failure"
    ELSE "ok"

\* UpdateDeployment saves the whole row it is handed
UpdateDeployment(row) == row

\* the API representation of a Deployment row
ToDeploymentType(d) ==
    [status |-> d.Status, subdomain |-> d.Subdomain,
     commit_sha |-> d.CommitSHA, gh_deployment_id |-> d.GHDeploymentID]

(* ------------------------- summary comment ----------------------------- *)

RepoOwner == "porter-dev"
RepoName == "porter"
ServerURL == "https://dashboard.example.com"
ClusterName == "cluster"
Namespace == "pr-1"
WorkflowRunURL == "https://github.com/porter-dev/porter/actions/runs/1"

\* variant: every resource is rendered with the application template
ResourceLine_AlwaysApplication(res) ==
    [kind |-> "resource", text |-> res.ReleaseName,
     link |-> <<ServerURL, "applications", ClusterName, Namespace, res.ReleaseName>>]

\* one "- [`name`](link)" line of the comment; the link is its path segments
ResourceLine(res) ==
    IF res.ReleaseType = "job"
    THEN [kind |-> "resource", text |-> res.ReleaseName,
          link |-> <<ServerURL, "jobs", ClusterName, Namespace, res.ReleaseName>>]
    ELSE [kind |-> "resource", text |-> res.ReleaseName,
          link |-> <<ServerURL, "applications", ClusterName, Namespace, res.ReleaseName>>]

\* the comment body as its sequence of lines
CommentBody(d, resources) ==
    << [kind |-> "title", text |-> "## Porter Preview Environments", link |-> <<>>],
       [kind |-> "sha", text |-> d.CommitSHA,
        link |-> <<"https://github.com", RepoOwner, RepoName, "commit", d.CommitSHA>>],
       [kind |-> "live", text |-> d.Subdomain, link |-> <<>>],
       [kind |-> "logs", text |-> WorkflowRunURL, link |-> <<>>],
       [kind |-> "dashboard", text |-> Namespace,
        link |-> <<ServerURL, "preview-environments", "details", Namespace>>] >>
    \o (IF Len(resources) > 0
        THEN << [kind |-> "resources_title",
                 text |-> "#### Successfully deployed resources", link |-> <<>>] >>
             \o [i \in 1..Len(resources) |-> ResourceLine(resources[i])]
        ELSE << >>)

\* variant: the substitution of lines 132-134 is missing
RenderSubdomain_Unchanged(d) == d

\* lines 132-134: an empty subdomain is replaced in the handler's copy
RenderSubdomain(d) ==
    IF d.Subdomain = "" THEN [d EXCEPT !.Subdomain = IngressDisabled] ELSE d

(* ------------------------------ Init ----------------------------------- *)

InitFinalize ==
    /\ envExists \in BOOLEAN
    /\ db \in IF envExists
              THEN {NoRow} \cup {Deployment(s, "", 1) : s \in DeploymentStatuses}
              ELSE {NoRow}
    /\ latestSHA = IF db.exists THEN 1 ELSE 0
    /\ prState = "open"
    /\ pc = [r \in Reqs |-> "idle"]
    /\ req = [r \in Reqs |-> NoReq]
    /\ depl = [r \in Reqs |-> NoRow]
    /\ calls = [r \in Reqs |-> << >>]
    /\ before = [r \in Reqs |-> NoRow]
    /\ stored = [r \in Reqs |-> NoRow]
    /\ posted = [r \in Reqs |-> NoComment]
    /\ result = [r \in Reqs |-> NoResult]

(* --------------------- FinalizeDeploymentHandler.ServeHTTP ------------- *)

\* c.HandleAPIError(w, r, e); return
HandleAPIError(r, e) ==
    /\ result' = [result EXCEPT ![r] = e]
    /\ pc' = [pc EXCEPT ![r] = "done"]

Record(r, op, out) ==
    calls' = [calls EXCEPT ![r] = Append(@, [op |-> op, out |-> out])]

\* lines 38-48: the request arrives, its parameters are decoded and validated
Start(r, requests) ==
    /\ pc[r] = "idle"
    /\ \E rq \in requests, valid \in BOOLEAN :
         /\ req' = [req EXCEPT ![r] = rq]
         /\ IF valid
            THEN /\ pc' = [pc EXCEPT ![r] = "readEnv"]
                 /\ UNCHANGED result
            ELSE HandleAPIError(r, [code |-> 400, class |-> "Client",
                                    err |-> "invalid request"])
    /\ UNCHANGED <<envExists, db, latestSHA, prState, depl, calls, before,
                   stored, posted>>
    /\ UNCHANGED provVars

\* lines 50-56
ReadEnv(r) ==
    /\ pc[r] = "readEnv"
    /\ \E storeOK \in BOOLEAN :
         LET err == ReadEnvironment(storeOK) IN
         /\ Record(r, "ReadEnvironment", err)
         /\ IF err # "ok"
            THEN HandleAPIError(r, NewErrInternal(err))
            ELSE /\ pc' = [pc EXCEPT ![r] = "readDepl"]
                 /\ UNCHANGED result
    /\ UNCHANGED <<envExists, db, latestSHA, prState, req, depl, before,
                   stored, posted>>
    /\ UNCHANGED provVars

\* lines 58-64
ReadDepl(r) ==
    /\ pc[r] = "readDepl"
    /\ \E storeOK \in BOOLEAN :
         LET err == ReadDeployment(storeOK) IN
         /\ Record(r, "ReadDeployment", err)
         /\ IF err # "ok"
            THEN /\ HandleAPIError(r, NewErrInternal(err))
                 /\ UNCHANGED <<depl, before>>
            ELSE /\ depl' = [depl EXCEPT ![r] = db]
                 /\ before' = [before EXCEPT ![r] = db]
                 /\ pc' = [pc EXCEPT ![r] = "update"]
                 /\ UNCHANGED result
    /\ UNCHANGED <<envExists, db, latestSHA, prState, req, stored, posted>>
    /\ UNCHANGED provVars

\* variant: the status assignment of line 67 is missing
Finalized_NoStatus(d, rq) ==
    [d EXCEPT !.Subdomain = rq.Subdomain]

\* variant: the subdomain assignment of line 66 is missing
Finalized_NoSubdomain(d, rq) ==
    [d EXCEPT !.Status = DeploymentStatusCreated]

\* variant: the handler's copy gets a new deployment-status-check identifier
Finalized_NewDeploymentID(d, rq) ==
    [d EXCEPT !.Subdomain = rq.Subdomain, !.Status = DeploymentStatusCreated,
              !.GHDeploymentID = @ + 1]

\* lines 66-67: the handler's copy with the request's subdomain and status created
Finalized(d, rq) ==
    [d EXCEPT !.Subdomain = rq.Subdomain, !.Status = DeploymentStatusCreated]

\* variant: the two fields are saved one after the other, and a store failure
\* after the first leaves the subdomain saved without the status
Update_FieldByField(r) ==
    /\ pc[r] = "update"
    /\ \E storeOK \in BOOLEAN :
         IF storeOK
         THEN /\ db' = UpdateDeployment(Finalized(depl[r], req[r]))
              /\ depl' = [depl EXCEPT ![r] = db']
              /\ stored' = [stored EXCEPT ![r] = db']
              /\ Record(r, "UpdateDeployment", "ok")
              /\ pc' = [pc EXCEPT ![r] = "ghStatus"]
              /\ UNCHANGED result
         ELSE /\ db' = UpdateDeployment([depl[r] EXCEPT !.Subdomain = req[r].Subdomain])
              /\ stored' = [stored EXCEPT ![r] = db']
              /\ Record(r, "UpdateDeployment", "store failure")
              /\ HandleAPIError(r, NewErrInternal("store failure"))
              /\ UNCHANGED depl
    /\ UNCHANGED <<envExists, latestSHA, prState, req, before, posted>>
    /\ UNCHANGED provVars

\* lines 66-75
Update(r) ==
    /\ pc[r] = "update"
    /\ \E storeOK \in BOOLEAN :
         IF storeOK
         THEN /\ db' = UpdateDeployment(Finalized(depl[r], req[r]))
              /\ depl' = [depl EXCEPT ![r] = db']
              /\ stored' = [stored EXCEPT ![r] = db']
              /\ Record(r, "UpdateDeployment", "ok")
              /\ pc' = [pc EXCEPT ![r] = "ghStatus"]
              /\ UNCHANGED result
         ELSE /\ Record(r, "UpdateDeployment", "store failure")
              /\ HandleAPIError(r, NewErrInternal("store failure"))
              /\ UNCHANGED <<db, depl, stored>>
    /\ UNCHANGED <<envExists, latestSHA, prState, req, before, posted>>
    /\ UNCHANGED provVars

\* lines 86-99: what is sent, and the deployment it is sent for
DeploymentStatusRequest(d) ==
    [State |-> "success", EnvironmentURL |-> d.Subdomain,
     DeploymentID |-> d.GHDeploymentID]

\* variant: the error check of lines 102-105 is missing
CreateDeploymentStatus_IgnoreError(r) ==
    /\ pc[r] = "ghStatus"
    /\ \E clientOK \in BOOLEAN, apiOK \in BOOLEAN :
         IF ~clientOK
         THEN /\ Record(r, "getGithubClientFromEnvironment", "client failure")
              /\ HandleAPIError(r, NewErrInternal("client failure"))
         ELSE IF ~apiOK
         THEN /\ Record(r, "CreateDeploymentStatus", "api failure")
              /\ pc' = [pc EXCEPT ![r] = "prCheck"]
              /\ UNCHANGED result
         ELSE /\ calls' = [calls EXCEPT ![r] =
                    Append(@, [op |-> "CreateDeploymentStatus", out |-> "ok",
                               request |-> DeploymentStatusRequest(depl[r])])]
              /\ pc' = [pc EXCEPT ![r] = "prCheck"]
              /\ UNCHANGED result
    /\ UNCHANGED <<envExists, db, latestSHA, prState, req, depl, before,
                   stored, posted>>
    /\ UNCHANGED provVars

\* lines 77-105: getGithubClientFromEnvironment, then
\* client.Repositories.CreateDeploymentStatus with state "success"
CreateDeploymentStatus(r) ==
    /\ pc[r] = "ghStatus"
    /\ \E clientOK \in BOOLEAN, apiOK \in BOOLEAN :
         IF ~clientOK
         THEN /\ Record(r, "getGithubClientFromEnvironment", "client failure")
              /\ HandleAPIError(r, NewErrInternal("client failure"))
         ELSE IF ~apiOK
         THEN /\ Record(r, "CreateDeploymentStatus", "api failure")
              /\ HandleAPIError(r, NewErrInternal("api failure"))
         ELSE /\ calls' = [calls EXCEPT ![r] =
                    Append(@, [op |-> "CreateDeploymentStatus", out |-> "ok",
                               request |-> DeploymentStatusRequest(depl[r])])]
              /\ pc' = [pc EXCEPT ![r] = "prCheck"]
              /\ UNCHANGED result
    /\ UNCHANGED <<envExists, db, latestSHA, prState, req, depl, before,
                   stored, posted>>
    /\ UNCHANGED provVars

\* lines 184-198: (closed?, err)
isGithubPRClosed(apiOK) ==
    IF ~apiOK THEN [closed |-> FALSE, err |-> "api failure"]
    ELSE [closed |-> prState = "closed", err |-> "nil"]

\* variant: the prClosed check of lines 118-122 is missing
CheckPR_IgnoreClosed(r) ==
    /\ pc[r] = "prCheck"
    /\ \E apiOK \in BOOLEAN :
         LET res == isGithubPRClosed(apiOK) IN
         IF res.err # "nil"
         THEN /\ Record(r, "PullRequests.Get", res.err)
              /\ HandleAPIError(r, NewErrPassThroughToClient(
                     "error fetching details of github PR", StatusConflict))
         ELSE /\ Record(r, "PullRequests.Get", IF res.closed THEN "closed" ELSE "open")
              /\ pc' = [pc EXCEPT ![r] = "workflow"]
              /\ UNCHANGED result
    /\ UNCHANGED <<envExists, db, latestSHA, prState, req, depl, before,
                   stored, posted>>
    /\ UNCHANGED provVars

\* lines 107-122
CheckPR(r) ==
    /\ pc[r] = "prCheck"
    /\ \E apiOK \in BOOLEAN :
         LET res == isGithubPRClosed(apiOK) IN
         IF res.err # "nil"
         THEN /\ Record(r, "PullRequests.Get", res.err)
              /\ HandleAPIError(r, NewErrPassThroughToClient(
                     "error fetching details of github PR", StatusConflict))
         ELSE IF res.closed
         THEN /\ Record(r, "PullRequests.Get", "closed")
              /\ HandleAPIError(r, NewErrPassThroughToClient(
                     "Github PR has been closed", StatusConflict))
         ELSE /\ Record(r, "PullRequests.Get", "open")
              /\ pc' = [pc EXCEPT ![r] = "workflow"]
              /\ UNCHANGED result
    /\ UNCHANGED <<envExists, db, latestSHA, prState, req, depl, before,
                   stored, posted>>
    /\ UNCHANGED provVars

\* lines 124-130: commonutils.GetLatestWorkflowRun
GetLatestWorkflowRun(r) ==
    /\ pc[r] = "workflow"
    /\ \E ok \in BOOLEAN :
         IF ok
         THEN /\ Record(r, "GetLatestWorkflowRun", "ok")
              /\ pc' = [pc EXCEPT ![r] = "comment"]
              /\ UNCHANGED result
         ELSE /\ Record(r, "GetLatestWorkflowRun", "api failure")
              /\ HandleAPIError(r, NewErrInternal("api failure"))
    /\ UNCHANGED <<envExists, db, latestSHA, prState, req, depl, before,
                   stored, posted>>
    /\ UNCHANGED provVars

\* lines 132-181: compose the comment, post it, write the result
CreateComment(r) ==
    /\ pc[r] = "comment"
    /\ depl' = [depl EXCEPT ![r] = RenderSubdomain(depl[r])]
    /\ \E ok \in BOOLEAN :
         IF ok
         THEN /\ posted' = [posted EXCEPT ![r] =
                    Append(@, CommentBody(depl'[r], req[r].SuccessfulResources))]
              /\ Record(r, "CreateComment", "ok")
              /\ result' = [result EXCEPT ![r] =
                    [code |-> StatusOK, class |-> "OK",
                     view |-> ToDeploymentType(depl'[r])]]
              /\ pc' = [pc EXCEPT ![r] = "done"]
         ELSE /\ Record(r, "CreateComment", "api failure")
              /\ HandleAPIError(r, NewErrInternal("api failure"))
              /\ UNCHANGED posted
    /\ UNCHANGED <<envExists, db, latestSHA, prState, req, before, stored>>
    /\ UNCHANGED provVars

(* -------------------------- other writers ------------------------------ *)

\* a push: createOrAdvance creates the row of (environment, namespace) on the
\* first call and updates the commit of the existing row in place afterwards
CreateOrAdvance ==
    /\ envExists
    /\ latestSHA <= MaxPushes
    /\ latestSHA' = latestSHA + 1
    /\ db' = IF db.exists
             THEN [db EXCEPT !.CommitSHA = latestSHA + 1,
                             !.Status = IF @ \in {"created", "failed"}
                                        THEN "creating" ELSE @]
             ELSE Deployment("created", "", latestSHA + 1)
    /\ UNCHANGED <<envExists, prState>>
    /\ UNCHANGED reqVars
    /\ UNCHANGED provVars

\* the pull request is closed at the pull-request system
ClosePR ==
    /\ prState = "open"
    /\ prState' = "closed"
    /\ UNCHANGED <<envExists, db, latestSHA>>
    /\ UNCHANGED reqVars
    /\ UNCHANGED provVars

(* ------------------- provisioning: launch handlers --------------------- *)

LaunchKinds == {"test", "ecr"}

\* project_id of the URL as ParseUint returns it; 0 is refused at lines 306-309, 333-336
ProjectIDs == {0, 1, 2}

ECRNames == {"main"}

NoInfra == [ID |-> 0]

NoResponse == [status |-> 0, error |-> "", body |-> NoInfra]

NoLaunch ==
    [pc |-> "idle", kind |-> "", projID |-> 0, ECRName |-> "",
     infra |-> NoInfra, job |-> 0, dup |-> FALSE, rejected |-> FALSE,
     response |-> NoResponse]

\* the error helpers of package api, by the class of error they report
ErrorClass(helper) ==
    CASE helper = "handleErrorInternal" -> "Internal"
      [] helper = "handleErrorFormDecoding" -> "Client"
      [] helper = "handleErrorFormValidation" -> "Client"
      [] helper = "handleErrorDataRead" -> "Internal"
      [] helper = "handleErrorDataWrite" -> "Internal"
      [] helper = "handleErrorUpgradeWebsocket" -> "Client"
      [] helper = "handleErrorWebsocketWrite" -> "Internal"
      [] OTHER -> "none"

\* app.handleError...(err, w); return
HandleError(l, helper) ==
    [launch[l] EXCEPT !.pc = "done", !.response.error = helper]

\* line 416: fmt.Sprintf("%s-%s-%s", kind, projectID, infraID)
StreamName(kind, projectID, infraID) ==
    kind \o "-" \o projectID \o "-" \o infraID

\* infra.Externalize()
Externalize(infra) ==
    [id |-> infra.ID, project_id |-> infra.ProjectID]

\* the jobs in flight for the resource instance (kind, project, infra)
InFlight(kind, projID, infraID) ==
    {j \in DOMAIN jobs : /\ jobs[j].state = "running"
                         /\ jobs[j].kind = kind
                         /\ jobs[j].projID = projID
                         /\ jobs[j].infraID = infraID}

\* The stream a run writes to. The run is started with the arguments of lines
\* 320 and 386-390 only, (projID) or (projID, awsInt, ECRName), so its stream is
\* a function of them: the one the handler of line 416 derives for the first
\* resource instance launched with these arguments.
ProvisionerStream(kind, projID, name, infraID) ==
    LET same == {j \in DOMAIN jobs : /\ jobs[j].kind = kind
                                     /\ jobs[j].projID = projID
                                     /\ jobs[j].ECRName = name}
    IN IF same = {}
       THEN StreamName(kind, ToString(projID), ToString(infraID))
       ELSE jobs[CHOOSE j \in same : \A k \in same : j <= k].stream

\* the job the substrate runs once it has accepted it
Job(l, infraID) ==
    [kind |-> launch[l].kind, projID |-> launch[l].projID,
     ECRName |-> launch[l].ECRName, infraID |-> infraID,
     stream |-> ProvisionerStream(launch[l].kind, launch[l].projID,
                                  launch[l].ECRName, infraID),
     state |-> "running"]

\* lines 304-309 and 331-361: the request arrives; project_id is parsed, and
\* for ECR the form is decoded, validated and converted
LaunchStart(l) ==
    /\ launch[l].pc = "idle"
    /\ \E kind \in LaunchKinds, projID \in ProjectIDs, name \in ECRNames,
          formOK \in BOOLEAN :
         LET rq == [launch[l] EXCEPT !.kind = kind, !.projID = projID,
                       !.ECRName = IF kind = "ecr" THEN name ELSE ""]
         IN launch' = [launch EXCEPT ![l] =
               IF projID = 0
               THEN [rq EXCEPT !.pc = "done",
                               !.response.error = "handleErrorFormDecoding"]
               ELSE IF kind = "test"
               THEN [rq EXCEPT !.pc = "agent"]
               ELSE IF ~formOK
               THEN [rq EXCEPT !.pc = "done",
                               !.response.error = "handleErrorFormValidation"]
               ELSE [rq EXCEPT !.pc = "createInfra"]]
    /\ UNCHANGED <<infras, jobs, streams, obs>>
    /\ UNCHANGED finalizeVars

\* lines 363-369: app.Repo.AWSInfra.CreateAWSInfra(infra)
CreateAWSInfra(l) ==
    /\ launch[l].pc = "createInfra"
    /\ \E storeOK \in BOOLEAN :
         IF storeOK
         THEN LET row == [ID |-> Len(infras) + 1,
                          ProjectID |-> launch[l].projID]
              IN /\ infras' = Append(infras, row)
                 /\ launch' = [launch EXCEPT ![l].infra = row,
                                             ![l].pc = "agent"]
         ELSE /\ launch' = [launch EXCEPT ![l] =
                    HandleError(l, "handleErrorDataWrite")]
              /\ UNCHANGED infras
    /\ UNCHANGED <<jobs, streams, obs>>
    /\ UNCHANGED finalizeVars

\* lines 312-317, and 371-384: ReadAWSIntegration and
\* kubernetes.GetAgentInClusterConfig()
GetAgentInClusterConfig(l) ==
    /\ launch[l].pc = "agent"
    /\ \E ok \in BOOLEAN :
         launch' = [launch EXCEPT ![l] =
            IF ok THEN [@ EXCEPT !.pc = "provision"]
            ELSE HandleError(l, "handleErrorDataRead")]
    /\ UNCHANGED <<infras, jobs, streams, obs>>
    /\ UNCHANGED finalizeVars

\* lines 320-327: agent.ProvisionTest(uint(projID)), then WriteHeader(200)
ProvisionTest(l) ==
    /\ launch[l].pc = "provision"
    /\ launch[l].kind = "test"
    /\ \E accepted \in BOOLEAN :
         LET dup == InFlight("test", launch[l].projID, 0) # {} IN
         IF accepted
         THEN /\ jobs' = Append(jobs, Job(l, 0))
              /\ launch' = [launch EXCEPT ![l].pc = "done", ![l].dup = dup,
                               ![l].job = Len(jobs) + 1,
                               ![l].response.status = StatusOK]
         ELSE /\ launch' = [launch EXCEPT ![l] =
                    [HandleError(l, "handleErrorInternal")
                        EXCEPT !.dup = dup, !.rejected = TRUE]]
              /\ UNCHANGED jobs
    /\ UNCHANGED <<infras, streams, obs>>
    /\ UNCHANGED finalizeVars

\* variant: the return of line 394 is missing
ProvisionECR_NoReturn(l) ==
    /\ launch[l].pc = "provision"
    /\ launch[l].kind = "ecr"
    /\ \E accepted \in BOOLEAN :
         LET dup == InFlight("ecr", launch[l].projID, launch[l].infra.ID) # {} IN
         IF accepted
         THEN /\ jobs' = Append(jobs, Job(l, launch[l].infra.ID))
              /\ launch' = [launch EXCEPT ![l].pc = "done", ![l].dup = dup,
                               ![l].job = Len(jobs) + 1,
                               ![l].response.status = StatusCreated,
                               ![l].response.body = Externalize(launch[l].infra)]
         ELSE /\ launch' = [launch EXCEPT ![l] =
                    [HandleError(l, "handleErrorInternal")
                        EXCEPT !.dup = dup, !.rejected = TRUE,
                               !.response.status = StatusCreated,
                               !.response.body = Externalize(launch[l].infra)]]
              /\ UNCHANGED jobs
    /\ UNCHANGED <<infras, streams, obs>>
    /\ UNCHANGED finalizeVars

\* lines 386-406: agent.ProvisionECR(uint(projID), awsInt, form.ECRName), then
\* WriteHeader(201) and the encoded infra
ProvisionECR(l) ==
    /\ launch[l].pc = "provision"
    /\ launch[l].kind = "ecr"
    /\ \E accepted \in BOOLEAN, encodeOK \in BOOLEAN :
         LET dup == InFlight("ecr", launch[l].projID, launch[l].infra.ID) # {} IN
         IF accepted
         THEN /\ jobs' = Append(jobs, Job(l, launch[l].infra.ID))
              /\ launch' = [launch EXCEPT ![l].pc = "done", ![l].dup = dup,
                               ![l].job = Len(jobs) + 1,
                               ![l].response =
                                  IF encodeOK
                                  THEN [status |-> StatusCreated, error |-> "",
                                        body |-> Externalize(launch[l].infra)]
                                  ELSE [status |-> StatusCreated,
                                        error |-> "handleErrorFormDecoding",
                                        body |-> NoInfra]]
         ELSE /\ launch' = [launch EXCEPT ![l] =
                    [HandleError(l, "handleErrorInternal")
                        EXCEPT !.dup = dup, !.rejected = TRUE]]
              /\ UNCHANGED jobs
    /\ UNCHANGED <<infras, streams, obs>>
    /\ UNCHANGED finalizeVars

\* the streams the runs of this model write to and the observers ask for
StreamNames ==
    {StreamName(k, ToString(p), ToString(i)) :
        k \in LaunchKinds, p \in ProjectIDs, i \in 0..NumLaunches}

\* the events of a stream that carry output, without the terminal event
LogEvents(name) ==
    SelectSeq(streams[name], LAMBDA e : e.kind = "log")

\* the provisioning run of job j appends an event to its stream
AppendEvent(j) ==
    /\ j \in DOMAIN jobs
    /\ jobs[j].state = "running"
    /\ Len(streams[jobs[j].stream]) < MaxEvents
    /\ streams' = [streams EXCEPT ![jobs[j].stream] =
          Append(@, [pos |-> Len(@) + 1, kind |-> "log"])]
    /\ UNCHANGED <<infras, jobs, launch, obs>>
    /\ UNCHANGED finalizeVars

\* the provisioning run of job j ends with the terminal "stream complete" event
JobCompletes(j) ==
    /\ j \in DOMAIN jobs
    /\ jobs[j].state = "running"
    /\ jobs' = [jobs EXCEPT ![j].state = "complete"]
    /\ streams' = [streams EXCEPT ![jobs[j].stream] =
          Append(@, [pos |-> Len(@) + 1, kind |-> "complete"])]
    /\ UNCHANGED <<infras, launch, obs>>
    /\ UNCHANGED finalizeVars

(* ----------------- provisioning: HandleGetProvisioningLogs ------------- *)

\* chi.URLParam(r, "kind"), "project_id", "infra_id" of lines 412-414
ObservedKinds == {"ecr"}

ObservedProjects == {"1"}

ObservedInfras == {"1", "2"}

NoObserver ==
    [pc |-> "idle", streamName |-> "", lastSeenPosition |-> 0, conn |-> "nil",
     attachedAt |-> 0, cursor |-> 0, received |-> << >>, errors |-> << >>,
     invoked |-> "no", closedBy |-> ""]

\* lines 410-425: the stream name is derived and the request is upgraded; a
\* failed upgrade is reported and the handler goes on to line 427
Upgrade(o) ==
    /\ obs[o].pc = "idle"
    /\ \E kind \in ObservedKinds, projectID \in ObservedProjects,
          infraID \in ObservedInfras, upgradeOK \in BOOLEAN :
         LET streamName == StreamName(kind, projectID, infraID) IN
         \E p \in 0..Len(LogEvents(streamName)) :
            obs' = [obs EXCEPT ![o] =
               [@ EXCEPT !.pc = "stream",
                         !.streamName = streamName,
                         !.lastSeenPosition = p,
                         !.conn = IF upgradeOK THEN "open" ELSE "nil",
                         !.errors = IF upgradeOK THEN @
                                    ELSE Append(@, "handleErrorUpgradeWebsocket")]]
    /\ UNCHANGED <<infras, jobs, launch, streams>>
    /\ UNCHANGED finalizeVars

\* lines 427-432: provisioner.ResourceStream(app.RedisClient, streamName, conn)
\* is called; with a connection the relay begins at the tail of the stream,
\* without one the call fails or panics
ResourceStream(o) ==
    /\ obs[o].pc = "stream"
    /\ IF obs[o].conn = "open"
       THEN obs' = [obs EXCEPT ![o] =
               [@ EXCEPT !.pc = "relaying", !.invoked = "conn",
                         !.attachedAt = Len(streams[obs[o].streamName]),
                         !.cursor = Len(streams[obs[o].streamName])]]
       ELSE \E outcome \in {"error", "panic"} :
            obs' = [obs EXCEPT ![o] =
               [@ EXCEPT !.pc = "done", !.invoked = "nil",
                         !.closedBy = outcome,
                         !.errors = IF outcome = "error"
                                    THEN Append(@, "handleErrorWebsocketWrite")
                                    ELSE @]]
    /\ UNCHANGED <<infras, jobs, launch, streams>>
    /\ UNCHANGED finalizeVars

\* the relay task of o reads the next event of its stream and writes it to its
\* connection; the terminal event closes the connection from the relay side
Relay(o) ==
    /\ obs[o].pc = "relaying"
    /\ obs[o].cursor < Len(streams[obs[o].streamName])
    /\ LET e == streams[obs[o].streamName][obs[o].cursor + 1] IN
       obs' = [obs EXCEPT ![o] =
          IF e.kind = "complete"
          THEN [@ EXCEPT !.pc = "done", !.conn = "closed",
                         !.closedBy = "relay", !.cursor = @ + 1]
          ELSE [@ EXCEPT !.received = Append(@, e), !.cursor = @ + 1]]
    /\ UNCHANGED <<infras, jobs, launch, streams>>
    /\ UNCHANGED finalizeVars

\* variant: the disconnect of an observer also cancels the run of its stream
Disconnect_CancelsJob(o) ==
    /\ obs[o].pc = "relaying"
    /\ obs' = [obs EXCEPT ![o] =
          [@ EXCEPT !.pc = "done", !.conn = "closed", !.closedBy = "client"]]
    /\ jobs' = [j \in DOMAIN jobs |->
                  IF jobs[j].stream = obs[o].streamName
                  THEN [jobs[j] EXCEPT !.state = "cancelled"] ELSE jobs[j]]
    /\ UNCHANGED <<infras, launch, streams>>
    /\ UNCHANGED finalizeVars

\* the client of o closes its connection: the relay task of o ends
Disconnect(o) ==
    /\ obs[o].pc = "relaying"
    /\ obs' = [obs EXCEPT ![o] =
          [@ EXCEPT !.pc = "done", !.conn = "closed", !.closedBy = "client"]]
    /\ UNCHANGED <<infras, jobs, launch, streams>>
    /\ UNCHANGED finalizeVars

\* lines 429-432: a read of the source stream fails, ResourceStream returns the
\* error and the handler reports it
SourceReadFails(o) ==
    /\ obs[o].pc = "relaying"
    /\ obs' = [obs EXCEPT ![o] =
          [@ EXCEPT !.pc = "done", !.conn = "closed", !.closedBy = "error",
                    !.errors = Append(@, "handleErrorWebsocketWrite")]]
    /\ UNCHANGED <<infras, jobs, launch, streams>>
    /\ UNCHANGED finalizeVars

InitProvision ==
    /\ infras = << >>
    /\ jobs = << >>
    /\ launch = [l \in Launches |-> NoLaunch]
    /\ streams = [n \in StreamNames |-> << >>]
    /\ obs = [o \in Observers |-> NoObserver]

\* an ECR registry of project 1 has been launched and its run is in flight
LaunchedECR ==
    [NoLaunch EXCEPT !.pc = "done", !.kind = "ecr", !.projID = 1,
        !.ECRName = "main", !.infra = [ID |-> 1, ProjectID |-> 1], !.job = 1,
        !.response = [status |-> StatusCreated, error |-> "",
                      body |-> [id |-> 1, project_id |-> 1]]]

InitRelay ==
    /\ InitFinalize
    /\ ~envExists
    /\ infras = <<[ID |-> 1, ProjectID |-> 1]>>
    /\ jobs = <<[kind |-> "ecr", projID |-> 1, ECRName |-> "main",
                 infraID |-> 1, stream |-> StreamName("ecr", "1", "1"),
                 state |-> "running"]>>
    /\ launch = [l \in Launches |-> IF l = 1 THEN LaunchedECR ELSE NoLaunch]
    /\ streams = [n \in StreamNames |-> << >>]
    /\ obs = [o \in Observers |-> NoObserver]

NextRelay ==
    \/ \E o \in Observers : Upgrade(o)
    \/ \E o \in Observers : ResourceStream(o)
    \/ \E o \in Observers : Relay(o)
    \/ \E o \in Observers : Disconnect(o)
    \/ \E o \in Observers : SourceReadFails(o)
    \/ \E j \in 1..NumLaunches : AppendEvent(j)
    \/ \E j \in 1..NumLaunches : JobCompletes(j)

SpecRelay == InitRelay /\ [][NextRelay]_vars

Init ==
    /\ InitFinalize
    /\ InitProvision

NextLaunch ==
    \/ \E l \in Launches : LaunchStart(l)
    \/ \E l \in Launches : CreateAWSInfra(l)
    \/ \E l \in Launches : GetAgentInClusterConfig(l)
    \/ \E l \in Launches : ProvisionTest(l)
    \/ \E l \in Launches : ProvisionECR(l)
    \/ \E j \in 1..NumLaunches : JobCompletes(j)

SpecLaunch == Init /\ [][NextLaunch]_vars

Next ==
    \/ \E r \in Reqs : Start(r, ConcurrentRequests)
    \/ \E r \in Reqs : ReadEnv(r)
    \/ \E r \in Reqs : ReadDepl(r)
    \/ \E r \in Reqs : Update(r)
    \/ \E r \in Reqs : CreateDeploymentStatus(r)
    \/ \E r \in Reqs : CheckPR(r)
    \/ \E r \in Reqs : GetLatestWorkflowRun(r)
    \/ \E r \in Reqs : CreateComment(r)
    \/ CreateOrAdvance
    \/ ClosePR

Spec == Init /\ [][Next]_vars

\* one finalize request served alone, drawn from the whole request space
NextSingle ==
    \/ Start(1, FinalizeDeploymentRequest)
    \/ ReadEnv(1)
    \/ ReadDepl(1)
    \/ Update(1)
    \/ CreateDeploymentStatus(1)
    \/ CheckPR(1)
    \/ GetLatestWorkflowRun(1)
    \/ CreateComment(1)
    \/ ClosePR

SpecSingle == Init /\ [][NextSingle]_vars

(* ----------------------- reading the call log -------------------------- *)

Done(r) == pc[r] = "done"

Called(r, op) == \E i \in 1..Len(calls[r]) : calls[r][i].op = op

Outcome(r, op, out) ==
    \E i \in 1..Len(calls[r]) : calls[r][i].op = op /\ calls[r][i].out = out

PRDetectedClosed(r) == Outcome(r, "PullRequests.Get", "closed")

IsSuccess(res) == res.code = StatusOK /\ res.class = "OK"

(* ------------------------------ C1 ------------------------------------- *)

\* C1 as stated: a finalize call that detects the pull request closed returns
\* a Conflict-class result and has left the stored status at the value it had
\* before the call (taken here for the statuses finalize is legal from).
C1_StatusUnchangedWhenPRClosed ==
    \A r \in Reqs :
        (Done(r) /\ PRDetectedClosed(r)
                 /\ before[r].Status \in {"creating", "created", "failed"}) =>
            /\ result[r].class = "Conflict"
            /\ stored[r].exists => stored[r].Status = before[r].Status

\* C1 amended: a finalize call that detects the pull request closed returns a
\* Conflict-class result (409), never the success result; by then the call has
\* already saved the row with the requested subdomain and status created, and
\* it is not rolled back.
C1_ConflictAfterRowSaved ==
    \A r \in Reqs :
        PRDetectedClosed(r) =>
            /\ Done(r)
            /\ result[r].class = "Conflict"
            /\ result[r].code = StatusConflict
            /\ ~IsSuccess(result[r])
            /\ stored[r].exists
            /\ stored[r].Status = DeploymentStatusCreated
            /\ stored[r].Subdomain = req[r].Subdomain

C1_Witness ==
    \E r \in Reqs :
        /\ Done(r) /\ PRDetectedClosed(r)
        /\ before[r].Status = "creating"
        /\ db.Status = DeploymentStatusCreated

(* ------------------------------ C2 ------------------------------------- *)

LegalForFinalize == {"creating", "created", "failed"}

AllCallsSucceeded(r) ==
    /\ Outcome(r, "ReadEnvironment", "ok")
    /\ Outcome(r, "ReadDeployment", "ok")
    /\ Outcome(r, "UpdateDeployment", "ok")
    /\ Outcome(r, "CreateDeploymentStatus", "ok")
    /\ Outcome(r, "PullRequests.Get", "open")
    /\ Outcome(r, "GetLatestWorkflowRun", "ok")
    /\ Outcome(r, "CreateComment", "ok")

FinalizedFrom(r, statuses) ==
    Outcome(r, "ReadDeployment", "ok") /\ before[r].Status \in statuses

\* C2: a finalize call on a Deployment in status creating, created or failed,
\* with the PR open and every call succeeding, saves the requested subdomain
\* and status created and returns the updated Deployment with a success result;
\* a repeated finalize with the same request is accepted as well and saves the
\* same subdomain and status.
C2_FinalizeStoresAndReturns ==
    /\ \A r \in Reqs :
         (FinalizedFrom(r, LegalForFinalize) /\ AllCallsSucceeded(r)) =>
            /\ Done(r)
            /\ IsSuccess(result[r])
            /\ stored[r].Subdomain = req[r].Subdomain
            /\ stored[r].Status = DeploymentStatusCreated
            /\ result[r].view.status = DeploymentStatusCreated
            /\ result[r].view.commit_sha = stored[r].CommitSHA
            /\ result[r].view.subdomain \in {req[r].Subdomain, IngressDisabled}
            /\ (req[r].Subdomain # "" => result[r].view.subdomain = req[r].Subdomain)
    /\ \A r1 \in Reqs, r2 \in Reqs :
         (/\ r1 # r2
          /\ req[r1] = req[r2]
          /\ FinalizedFrom(r1, LegalForFinalize) /\ AllCallsSucceeded(r1)
          /\ FinalizedFrom(r2, LegalForFinalize) /\ AllCallsSucceeded(r2)) =>
            /\ IsSuccess(result[r1]) /\ IsSuccess(result[r2])
            /\ stored[r1].Subdomain = stored[r2].Subdomain
            /\ stored[r1].Status = stored[r2].Status

\* a re-finalize: the second call read the row the first one saved
C2_Witness ==
    \E r1 \in Reqs, r2 \in Reqs :
        /\ r1 # r2
        /\ FinalizedFrom(r1, {"failed"}) /\ AllCallsSucceeded(r1)
        /\ AllCallsSucceeded(r2)
        /\ req[r1] = req[r2]
        /\ req[r1].Subdomain = "foo.example.com"
        /\ before[r2] = stored[r1]
        /\ IsSuccess(result[r1]) /\ IsSuccess(result[r2])

(* ------------------------------ C3 ------------------------------------- *)

NonTerminal == {"created", "creating", "failed"}

TransitionGraph ==
    {<<"created", "creating">>, <<"creating", "created">>,
     <<"creating", "failed">>, <<"failed", "creating">>}
    \cup {<<s, "timed_out">> : s \in {"created", "creating", "failed"}}
    \cup {<<s, "closing">> : s \in NonTerminal}
    \cup {<<"closing", "closed">>}

\* C3 as stated: every change of a Deployment's status is an edge of the
\* transition graph; finalize on a Deployment in status closing, closed or
\* timed_out does not set the status to created.
C3_StatusFollowsGraph ==
    [][(db.exists /\ db'.exists /\ db'.Status # db.Status)
          => <<db.Status, db'.Status>> \in TransitionGraph]_vars

(* ------------------------------ C4 ------------------------------------- *)

Unresolved(r) ==
    \/ Outcome(r, "ReadEnvironment", "record not found")
    \/ Outcome(r, "ReadDeployment", "record not found")

\* C4 as stated: when the Environment or the Deployment cannot be resolved,
\* finalize fails with a NotFound-class (client-class) error, not an Internal
\* error.
C4_NotFoundWhenUnresolved ==
    \A r \in Reqs :
        (Done(r) /\ Unresolved(r)) =>
            /\ result[r].class # "Internal"
            /\ result[r].code \in 400..499

(* ------------------------------ C5 ------------------------------------- *)

\* C5: once the PR-open check finds the pull request closed, the call ends
\* there: no workflow-run lookup, no comment, and the result is a
\* Conflict-class error, not an Internal error.
C5_NoStepsAfterClosedPR ==
    \A r \in Reqs :
        PRDetectedClosed(r) =>
            /\ Done(r)
            /\ calls[r][Len(calls[r])].op = "PullRequests.Get"
            /\ ~Called(r, "GetLatestWorkflowRun")
            /\ ~Called(r, "CreateComment")
            /\ posted[r] = NoComment
            /\ result[r].class = "Conflict"
            /\ result[r].class # "Internal"

C5_Witness ==
    \E r \in Reqs :
        /\ PRDetectedClosed(r)
        /\ Outcome(r, "CreateDeploymentStatus", "ok")
        /\ result[r].code = StatusConflict

(* ------------------------------ C6 ------------------------------------- *)

NotificationSteps ==
    {"CreateDeploymentStatus", "PullRequests.Get", "GetLatestWorkflowRun",
     "CreateComment"}

NotificationStepFailed(r) ==
    \E i \in 1..Len(calls[r]) :
        calls[r][i].op \in NotificationSteps /\ calls[r][i].out = "api failure"

\* C6 as stated: when a notification step fails with a transport/API error the
\* caller receives an Internal-class error, no comment was posted by the call
\* and no success result is returned.
C6_InternalWhenStepFails ==
    \A r \in Reqs :
        (Done(r) /\ NotificationStepFailed(r)) =>
            /\ result[r].class = "Internal"
            /\ posted[r] = NoComment
            /\ ~IsSuccess(result[r])

(* ------------------------------ C7 ------------------------------------- *)

\* C7: every step of a finalize call either leaves the stored row as it was or
\* saves it fully updated (requested subdomain and status created, together);
\* no step, whatever the call's outcome, saves one without the other.
C7_NoPartialUpdate ==
    [][\A r \in Reqs :
          pc'[r] # pc[r] =>
             \/ db' = db
             \/ /\ db'.exists
                /\ db'.Subdomain = req[r].Subdomain
                /\ db'.Status = DeploymentStatusCreated
                /\ stored'[r] = db']_vars

\* a call that returned an error after its row was saved in full
C7_Witness ==
    \E r \in Reqs :
        /\ Done(r)
        /\ result[r].class = "Internal"
        /\ stored[r].exists
        /\ before[r].Status = "failed"
        /\ stored[r].Status = DeploymentStatusCreated
        /\ stored[r].Subdomain = "foo.example.com"

(* ------------------------------ C8 ------------------------------------- *)

Range(f) == {f[i] : i \in DOMAIN f}

LiveURL(body) == (CHOOSE l \in Range(body) : l.kind = "live").text

EmptySubdomainRequested(r) == pc[r] # "idle" /\ req[r].Subdomain = ""

\* C8 as stated: for a finalize call with an empty subdomain both the stored
\* Deployment's view and the comment show the "ingress disabled" marker, never
\* an empty subdomain.
C8_MarkerInStoredViewAndComment ==
    \A r \in Reqs :
        EmptySubdomainRequested(r) =>
            /\ stored[r].exists =>
                  ToDeploymentType(stored[r]).subdomain = IngressDisabled
            /\ \A i \in 1..Len(posted[r]) : LiveURL(posted[r][i]) = IngressDisabled

\* C8 amended: for a finalize call with an empty subdomain the comment and the
\* Deployment representation returned to the caller show the "ingress
\* disabled" marker, and neither ever carries an empty subdomain; the stored
\* row keeps the empty subdomain of the request.
C8_MarkerInReturnedViewAndComment ==
    /\ \A r \in Reqs :
         EmptySubdomainRequested(r) =>
            /\ \A i \in 1..Len(posted[r]) : LiveURL(posted[r][i]) = IngressDisabled
            /\ IsSuccess(result[r]) => result[r].view.subdomain = IngressDisabled
            /\ stored[r].exists => stored[r].Subdomain = ""
    /\ \A r \in Reqs :
         /\ \A i \in 1..Len(posted[r]) : LiveURL(posted[r][i]) # ""
         /\ IsSuccess(result[r]) => result[r].view.subdomain # ""

C8_Witness ==
    \E r \in Reqs :
        /\ EmptySubdomainRequested(r)
        /\ IsSuccess(result[r])
        /\ Len(posted[r]) = 1
        /\ db.Subdomain = ""

(* ------------------------------ C9 ------------------------------------- *)

ResourceLinesOf(body) == SelectSeq(body, LAMBDA l : l.kind = "resource")

JobStyle(line) ==
    "jobs" \in Range(line.link) /\ "applications" \notin Range(line.link)

ApplicationStyle(line) ==
    "applications" \in Range(line.link) /\ "jobs" \notin Range(line.link)

\* C9: the comment finalize posts holds the linked commit of the Deployment,
\* the live URL, and one resource line per entry of successfulResources in
\* request order; a "job" resource has a job-style link, every other resource
\* an application-style link.
C9_CommentComposition ==
    \A r \in Reqs : \A c \in 1..Len(posted[r]) :
        LET body == posted[r][c]
            res == req[r].SuccessfulResources
            lines == ResourceLinesOf(body)
        IN /\ \E k \in 1..Len(body) :
                /\ body[k].kind = "sha"
                /\ body[k].text = stored[r].CommitSHA
                /\ body[k].link[Len(body[k].link)] = stored[r].CommitSHA
                /\ "commit" \in Range(body[k].link)
           /\ \E k \in 1..Len(body) :
                /\ body[k].kind = "live"
                /\ body[k].text =
                      IF req[r].Subdomain = "" THEN IngressDisabled
                      ELSE req[r].Subdomain
           /\ Len(lines) = Len(res)
           /\ \A j \in 1..Len(res) :
                /\ lines[j].text = res[j].ReleaseName
                /\ res[j].ReleaseName \in Range(lines[j].link)
                /\ res[j].ReleaseType = "job" => JobStyle(lines[j])
                /\ res[j].ReleaseType # "job" => ApplicationStyle(lines[j])
           /\ Cardinality({j \in 1..Len(lines) : JobStyle(lines[j])})
                 = Cardinality({j \in 1..Len(res) : res[j].ReleaseType = "job"})

C9_Witness ==
    \E r \in Reqs :
        /\ Len(posted[r]) = 1
        /\ req[r].Subdomain = "foo.example.com"
        /\ req[r].SuccessfulResources =
              << [ReleaseName |-> "worker", ReleaseType |-> "job"],
                 [ReleaseName |-> "api", ReleaseType |-> "web"] >>

(* ------------------------------ C10 ------------------------------------ *)

\* C10 as stated: whatever the interleaving of a finalize call with another
\* writer of the same Deployment, no update is lost: the stored row carries
\* the commit of the most recent push.
C10_NoLostUpdate ==
    db.exists => db.CommitSHA = latestSHA

(* ------------------------------ C11 ------------------------------------ *)

StatusRequestsOf(r) ==
    {calls[r][i].request :
        i \in {j \in 1..Len(calls[r]) : calls[r][j].op = "CreateDeploymentStatus"
                                        /\ calls[r][j].out = "ok"}}

LaunchDone(l) == launch[l].pc = "done"

SameInstance(i, j) ==
    /\ jobs[i].kind = jobs[j].kind
    /\ jobs[i].projID = jobs[j].projID
    /\ jobs[i].infraID = jobs[j].infraID

\* C12: a launch handled while a provisioning job for the identical (kind,
\* owner, resource instance) is in flight fails with Conflict, and no two jobs
\* for one resource instance are ever in flight together.
C12_ConflictWhenInFlight ==
    /\ \A l \in Launches :
          LaunchDone(l) /\ launch[l].dup =>
              /\ ErrorClass(launch[l].response.error) = "Conflict"
              /\ launch[l].job = 0
    /\ \A i, j \in DOMAIN jobs :
          /\ i # j
          /\ jobs[i].state = "running"
          /\ jobs[j].state = "running"
          => ~SameInstance(i, j)

(* ------------------------------ C13 ------------------------------------ *)

\* the successful launches of an ECR registry
CreatedECR ==
    {l \in Launches : /\ LaunchDone(l)
                      /\ launch[l].kind = "ecr"
                      /\ launch[l].job # 0}

\* C13: the stream name derived from (kind, project, infra) of a launched
\* resource instance is the stream the provisioning run launched for it
\* writes to.
C13_DerivedStreamIsRunStream ==
    \A l \in CreatedECR :
        jobs[launch[l].job].stream =
            StreamName("ecr", ToString(launch[l].projID),
                       ToString(launch[l].infra.ID))

(* ------------------------------ C14 ------------------------------------ *)

StreamOf(o) == streams[obs[o].streamName]

\* the relay of o has delivered the terminal event and closed the connection
ClosedByRelay(o) == obs[o].closedBy = "relay"

EventsAfter(o, p) ==
    SelectSeq(LogEvents(obs[o].streamName), LAMBDA e : e.pos > p)

\* C14: when the relay closes the connection of an observer that attached at
\* the start of the stream, the observer has received exactly the events
\* 1..n in order; an observer that attached with lastSeenPosition = p has
\* received exactly the events after p, in order.
C14_ExactlyTheEventsAfterLastSeen ==
    \A o \in Observers :
        ClosedByRelay(o) =>
            /\ obs[o].attachedAt = 0 => obs[o].received = EventsAfter(o, 0)
            /\ obs[o].lastSeenPosition > 0 =>
                  obs[o].received = EventsAfter(o, obs[o].lastSeenPosition)

(* ------------------------------ C15 ------------------------------------ *)

\* what the relay of o has delivered is the stretch of its stream from the
\* point where o attached up to its own cursor
OwnStretch(o) ==
    LET last == IF ClosedByRelay(o) THEN obs[o].cursor - 1 ELSE obs[o].cursor
    IN /\ obs[o].received = SubSeq(StreamOf(o), obs[o].attachedAt + 1, last)
       /\ ClosedByRelay(o) =>
             /\ obs[o].cursor = Len(StreamOf(o))
             /\ obs[o].attachedAt = 0 => obs[o].received = LogEvents(obs[o].streamName)

\* o goes from relaying to disconnected by its client
Disconnects(o) ==
    /\ obs[o].pc = "relaying"
    /\ obs'[o].closedBy = "client"

\* C15: every observer of a stream receives the events of the stream from its
\* own point of attachment whatever the other observers do, and the disconnect
\* of one observer ends its own relay only: the other observers, the
\* provisioning job and the stream are left as they were.
C15_FanOutAndIsolatedDisconnect ==
    /\ [](\A o \in Observers : obs[o].invoked = "conn" => OwnStretch(o))
    /\ [][\A o \in Observers :
             Disconnects(o) =>
                /\ obs'[o].pc = "done"
                /\ jobs' = jobs
                /\ streams' = streams
                /\ \A q \in Observers \ {o} : obs'[q] = obs[q]]_vars

\* two observers of one stream, both attached at the start: one disconnected
\* after the first event, the other received all events up to the terminal one
C15_Witness ==
    \E o, q \in Observers :
        /\ o # q
        /\ obs[o].streamName = obs[q].streamName
        /\ obs[o].invoked = "conn" /\ obs[q].invoked = "conn"
        /\ obs[o].attachedAt = 0 /\ obs[q].attachedAt = 0
        /\ obs[o].closedBy = "client" /\ Len(obs[o].received) = 1
        /\ ClosedByRelay(q) /\ Len(obs[q].received) = MaxEvents
        /\ jobs[1].state = "complete"

(* ------------------------------ C16 ------------------------------------ *)

\* C16: when the substrate rejects the job, the launch reports an Internal
\* error and returns neither a success status nor a resource representation.
C16_InternalWhenSubstrateRejects ==
    \A l \in Launches :
        launch[l].rejected =>
            /\ LaunchDone(l)
            /\ launch[l].response.error = "handleErrorInternal"
            /\ ErrorClass(launch[l].response.error) = "Internal"
            /\ launch[l].response.status \notin {StatusOK, StatusCreated}
            /\ launch[l].response.body = NoInfra
            /\ launch[l].job = 0

\* the substrate rejected an ECR job whose infra row had been written
C16_Witness ==
    \E l \in Launches :
        /\ launch[l].rejected
        /\ launch[l].kind = "ecr"
        /\ launch[l].infra # NoInfra
        /\ launch[l].infra \in Range(infras)

(* ------------------------------ C19 ------------------------------------ *)

UpgradeFailed(o) ==
    \E i \in DOMAIN obs[o].errors : obs[o].errors[i] = "handleErrorUpgradeWebsocket"

\* C19: when the upgrade of a request fails, the upgrade error is the only
\* error written for it and ResourceStream is not invoked.
C19_NoRelayAfterFailedUpgrade ==
    \A o \in Observers :
        UpgradeFailed(o) =>
            /\ obs[o].invoked = "no"
            /\ Len(obs[o].errors) = 1

\* the state the relay specification starts from is one the launch reaches
LaunchedECR_Reached ==
    /\ launch[1] = LaunchedECR
    /\ launch[2] = NoLaunch
    /\ Len(infras) = 1 /\ infras[1] = LaunchedECR.infra
    /\ Len(jobs) = 1 /\ jobs[1].state = "running"
    /\ jobs[1].stream = StreamName("ecr", "1", "1")

(* ------------------------------ C17 ------------------------------------ *)

NotificationOrder ==
    <<"CreateDeploymentStatus", "PullRequests.Get", "GetLatestWorkflowRun",
      "CreateComment">>

NotificationCalls(r) ==
    SelectSeq(calls[r], LAMBDA c : c.op \in NotificationSteps)

PositionOf(r, op) ==
    CHOOSE i \in 1..Len(calls[r]) : calls[r][i].op = op

\* C17: within one finalize call the notification steps are made in the order
\* (a) deployment status "success" with the environment URL, (b) PR state,
\* (c) latest workflow run, (d) comment; a step is made only after the one
\* before it succeeded; the comment is posted at most once, and only after the
\* PR was seen open in that call.
C17_NotificationOrder ==
    \A r \in Reqs :
        LET n == NotificationCalls(r) IN
        /\ Len(n) <= Len(NotificationOrder)
        /\ \A i \in 1..Len(n) : n[i].op = NotificationOrder[i]
        /\ \A i \in 1..(Len(n) - 1) : n[i].out \in {"ok", "open"}
        /\ \A q \in StatusRequestsOf(r) :
              q.State = "success" /\ q.EnvironmentURL = stored[r].Subdomain
        /\ Len(posted[r]) <= 1
        /\ Len(posted[r]) = 1 =>
              /\ Outcome(r, "PullRequests.Get", "open")
              /\ Outcome(r, "CreateComment", "ok")
              /\ PositionOf(r, "PullRequests.Get") < PositionOf(r, "CreateComment")

C17_Witness ==
    \E r \in Reqs :
        /\ Len(NotificationCalls(r)) = 4
        /\ Len(posted[r]) = 1
        /\ req[r].Subdomain = "foo.example.com"

(* ------------------------------ C18 ------------------------------------ *)

\* C18: a finalize request has an outcome exactly when it has ended, the
\* outcome is either an error or the success result, and the success result is
\* returned only if in that call the row was saved with status created, the
\* deployment status was set to success, the PR was seen open and exactly one
\* comment was posted.
C18_OneOutcomeAndSuccessOnlyWhenComplete ==
    \A r \in Reqs :
        /\ Done(r) <=> result[r] # NoResult
        /\ Done(r) =>
              \/ IsSuccess(result[r])
              \/ /\ result[r].class \in {"Internal", "Conflict", "Client"}
                 /\ result[r].code >= 400
        /\ IsSuccess(result[r]) =>
              /\ stored[r].exists
              /\ stored[r].Status = DeploymentStatusCreated
              /\ \E q \in StatusRequestsOf(r) : q.State = "success"
              /\ Outcome(r, "PullRequests.Get", "open")
              /\ ~Outcome(r, "PullRequests.Get", "closed")
              /\ Len(posted[r]) = 1

\* both outcomes: request 1 ended with the success result
C18_Witness ==
    \E r \in Reqs :
        /\ Done(r)
        /\ IsSuccess(result[r])
        /\ result[r].view.status = DeploymentStatusCreated
        /\ Len(calls[r]) = 7

====
